---- MODULE Spec2Model ----
(***************************************************************************)
(* Model of src/main.py (Kenorland Digitizing server): the /download_gm    *)
(* job handler with its Dropbox provisioning, link discovery and           *)
(* fetch-and-upload loop, the Manitoba direct download, the case-variant   *)
(* generator and the PDF unlock helper.                                    *)
(*                                                                         *)
(* Python strings are modelled as sequences of one-character strings, so   *)
(* that lower(), upper(), endswith(), basename(), splitext(), urlparse()   *)
(* and urljoin() are computed character by character as the library does.  *)
(***************************************************************************)
EXTENDS Integers, Sequences, FiniteSets, TLC

VARIABLES
    job,        \* per request in flight: position in download_gm and its locals
    folders,    \* Dropbox: the folder paths that exist
    files,      \* Dropbox: the template destination files that exist
    storeFaults,\* whether the store may fail for reasons other than its contents
    ext,        \* _case_variants: the argument
    variants,   \* _case_variants: the returned list (or "pending")
    pdf,        \* _unlock_pdf_bytes: the argument, the pikepdf build and outcomes
    unlocked,   \* _unlock_pdf_bytes: the returned value and the attempts made
    page,       \* link discovery: markup (hrefs in document order), base_url
    found       \* link discovery: the lists computed from page (or "pending")

vars == <<job, folders, files, storeFaults, ext, variants, pdf, unlocked, page, found>>

jobVars == <<job, folders, files, storeFaults>>
caseVars == <<ext, variants>>
unlockVars == <<pdf, unlocked>>
discoverVars == <<page, found>>

(***************************************************************************)
(* Bounds of the model.                                                    *)
(***************************************************************************)
MaxExtLen == 3      \* longest suffix handed to _case_variants
MaxLinks == 2       \* most anchors of a listing page in the discovery runs
MaxJobLinks == 1    \* most anchors of a listing page in the job runs
MaxDoc == 2         \* number of distinct uploaded documents tried by unlock

(***************************************************************************)
(* Characters and strings.                                                 *)
(***************************************************************************)
Lowers == <<"a","b","c","d","e","f","g","h","i","j","k","l","m",
            "n","o","p","q","r","s","t","u","v","w","x","y","z">>
Uppers == <<"A","B","C","D","E","F","G","H","I","J","K","L","M",
            "N","O","P","Q","R","S","T","U","V","W","X","Y","Z">>

LowerSet == {Lowers[i] : i \in 1..26}
UpperSet == {Uppers[i] : i \in 1..26}
ToLower == [c \in UpperSet |-> Lowers[CHOOSE i \in 1..26 : Uppers[i] = c]]
ToUpper == [c \in LowerSet |-> Uppers[CHOOSE i \in 1..26 : Lowers[i] = c]]

\* str.lower() and str.upper() on one character
Lower(c) == IF c \in UpperSet THEN ToLower[c] ELSE c
Upper(c) == IF c \in LowerSet THEN ToUpper[c] ELSE c
IsLetter(c) == c \in LowerSet \cup UpperSet

LowerS(s) == [i \in 1..Len(s) |-> Lower(s[i])]
UpperS(s) == [i \in 1..Len(s) |-> Upper(s[i])]

StartsWith(s, p) == Len(s) >= Len(p) /\ SubSeq(s, 1, Len(p)) = p
EndsWith(s, p) == Len(s) >= Len(p) /\ SubSeq(s, Len(s) - Len(p) + 1, Len(s)) = p

\* position of the last / first occurrence of a character of cs in s, 0 if none
LastIndex(s, cs) == IF \E i \in 1..Len(s) : s[i] \in cs
                    THEN CHOOSE i \in 1..Len(s) :
                           s[i] \in cs /\ \A k \in (i+1)..Len(s) : s[k] \notin cs
                    ELSE 0
FirstIndex(s, cs) == IF \E i \in 1..Len(s) : s[i] \in cs
                     THEN CHOOSE i \in 1..Len(s) :
                            s[i] \in cs /\ \A k \in 1..(i-1) : s[k] \notin cs
                     ELSE 0

\* the sequences over S of length at most n
SeqsUpTo(S, n) == UNION {[1..k -> S] : k \in 0..n}

\* list(dict.fromkeys(xs)): first occurrences, in order
RECURSIVE Dedupe(_)
Dedupe(xs) ==
    IF xs = <<>> THEN <<>>
    ELSE LET front == Dedupe(SubSeq(xs, 1, Len(xs) - 1))
             last == xs[Len(xs)]
         IN IF \E i \in 1..Len(front) : front[i] = last
            THEN front ELSE Append(front, last)

RECURSIVE Concat(_)
Concat(xss) == IF xss = <<>> THEN <<>> ELSE Head(xss) \o Concat(Tail(xss))

(***************************************************************************)
(* _case_variants (src/main.py 307-310).                                   *)
(***************************************************************************)
\* itertools.product of the (lower, upper) pairs, first position slowest
RECURSIVE Product(_)
Product(pairs) ==
    IF pairs = <<>> THEN << <<>> >>
    ELSE LET rest == Product(Tail(pairs))
             with(c) == [i \in 1..Len(rest) |-> <<c>> \o rest[i]]
         IN with(Head(pairs)[1]) \o with(Head(pairs)[2])

\* a plausible slip: the pair is (c, c.upper()) instead of (c.lower(), c.upper())
case_variants_nolower(e) ==
    IF e = <<>> THEN <<>>
    ELSE Product([i \in 1..Len(e) |-> <<e[i], Upper(e[i])>>])

case_variants(e) ==
    IF e = <<>> THEN <<>>
    ELSE Product([i \in 1..Len(e) |-> <<Lower(e[i]), Upper(e[i])>>])

PdfExt == <<"p","d","f">>

\* the suffixes tried: letters of either case, a digit, a dot
CaseAlphabet == {"p", "D", "f", "1", "."}
Exts == SeqsUpTo(CaseAlphabet, MaxExtLen)

(***************************************************************************)
(* URL and path helpers (urllib.parse, os.path) on character sequences.    *)
(***************************************************************************)
Digits == {"0","1","2","3","4","5","6","7","8","9"}
SchemeOk(s) == /\ Len(s) > 0
               /\ IsLetter(s[1])
               /\ \A i \in 1..Len(s) : IsLetter(s[i]) \/ s[i] \in Digits \cup {"+", "-", "."}

\* str.strip() for the blank character
RECURSIVE Strip(_)
Strip(s) == IF s # <<>> /\ Head(s) = " " THEN Strip(Tail(s))
            ELSE IF s # <<>> /\ s[Len(s)] = " " THEN Strip(SubSeq(s, 1, Len(s) - 1))
            ELSE s

\* urlparse(url): scheme (lowercased), netloc, path; query and fragment are cut off
UrlParse(url) ==
    LET colon == FirstIndex(url, {":"})
        hasScheme == colon > 1 /\ SchemeOk(SubSeq(url, 1, colon - 1))
        scheme == IF hasScheme THEN LowerS(SubSeq(url, 1, colon - 1)) ELSE <<>>
        rest == IF hasScheme THEN SubSeq(url, colon + 1, Len(url)) ELSE url
        hasNet == StartsWith(rest, <<"/", "/">>)
        afterSl == IF hasNet THEN SubSeq(rest, 3, Len(rest)) ELSE rest
        netEnd == IF hasNet THEN FirstIndex(afterSl, {"/", "?", "#"}) ELSE 1
        netloc == IF ~hasNet THEN <<>>
                  ELSE IF netEnd = 0 THEN afterSl ELSE SubSeq(afterSl, 1, netEnd - 1)
        tail == IF ~hasNet THEN rest
                ELSE IF netEnd = 0 THEN <<>> ELSE SubSeq(afterSl, netEnd, Len(afterSl))
        cut == FirstIndex(tail, {"?", "#"})
        path == IF cut = 0 THEN tail ELSE SubSeq(tail, 1, cut - 1)
    IN [scheme |-> scheme, netloc |-> netloc, path |-> path]

\* os.path.basename: what follows the last slash
basename(p) == SubSeq(p, LastIndex(p, {"/"}) + 1, Len(p))

\* os.path.splitext: split at the last dot of the name, leading dots excepted
splitext(name) ==
    LET dot == LastIndex(name, {"."})
        real == dot > 0 /\ \E k \in 1..(dot - 1) : name[k] # "."
    IN IF real THEN [root |-> SubSeq(name, 1, dot - 1), ext |-> SubSeq(name, dot, Len(name))]
       ELSE [root |-> name, ext |-> <<>>]

\* urljoin(base, url) for a url without dot segments
urljoin(base, url) ==
    LET b == UrlParse(base)
        u == UrlParse(url)
        origin == b.scheme \o <<":", "/", "/">> \o b.netloc
        dir == SubSeq(b.path, 1, LastIndex(b.path, {"/"}))
    IN IF u.scheme # <<>> THEN url
       ELSE IF StartsWith(url, <<"/", "/">>) THEN b.scheme \o <<":">> \o url
       ELSE IF StartsWith(url, <<"/">>) THEN origin \o url
       ELSE origin \o (IF dir = <<>> THEN <<"/">> ELSE dir) \o url

DotPdf == <<".", "p", "d", "f">>
Http == <<"h","t","t","p">>
Https == <<"h","t","t","p","s">>

(***************************************************************************)
(* Link discovery (src/main.py 296-305 and 349-370).                       *)
(***************************************************************************)
\* the href attribute values of the anchors, stripped, in document order
Hrefs(html) == [i \in 1..Len(html) |-> Strip(html[i])]

RECURSIVE ExplicitLinks(_, _)
ExplicitLinks(hs, base) ==
    IF hs = <<>> THEN <<>>
    ELSE LET href == Head(hs)
             rest == ExplicitLinks(Tail(hs), base)
         IN IF EndsWith(LowerS(href), DotPdf) /\ UrlParse(href).scheme \in {Http, Https}
            THEN <<href>> \o rest
            ELSE IF EndsWith(LowerS(href), DotPdf)
            THEN <<urljoin(base, href)>> \o rest
            ELSE rest

extract_pdf_links(html, base) == Dedupe(ExplicitLinks(Hrefs(html), base))

\* the stems of the hrefs whose file name has the pdf suffix
RECURSIVE PdfStems(_)
PdfStems(hs) ==
    IF hs = <<>> THEN <<>>
    ELSE LET se == splitext(basename(Head(hs)))
         IN IF se.ext # <<>> /\ LowerS(Tail(se.ext)) = PdfExt
            THEN <<se.root>> \o PdfStems(Tail(hs))
            ELSE PdfStems(Tail(hs))

\* the non-empty stems of all hrefs
RECURSIVE AllStems(_)
AllStems(hs) ==
    IF hs = <<>> THEN <<>>
    ELSE LET se == splitext(basename(Head(hs)))
         IN IF se.root # <<>>
            THEN <<se.root>> \o AllStems(Tail(hs))
            ELSE AllStems(Tail(hs))

\* a plausible slip: the stems of all hrefs are added even when some href has
\* the pdf suffix
GuessStems_always(html) ==
    LET hs == Hrefs(html)
    IN Dedupe(PdfStems(hs) \o AllStems(hs))

GuessStems(html) ==
    LET hs == Hrefs(html)
    IN Dedupe(IF PdfStems(hs) # <<>> THEN PdfStems(hs) ELSE AllStems(hs))

\* more_links: base_url/ar_number/root.v for every stem and case variant
more_links(html, base_url, ar_number) ==
    IF base_url = <<>> THEN <<>>
    ELSE LET stems == GuessStems(html)
             vs == case_variants(PdfExt)
             forStem(root) == [k \in 1..Len(vs) |->
                 base_url \o <<"/">> \o ar_number \o <<"/">> \o root \o <<".">> \o vs[k]]
         IN Concat([i \in 1..Len(stems) |-> forStem(stems[i])])

\* a plausible slip: the two lists are joined without removing duplicates
all_links_nodedupe(html, list_page_url, base_url, ar_number) ==
    extract_pdf_links(html, list_page_url) \o more_links(html, base_url, ar_number)

all_links(html, list_page_url, base_url, ar_number) ==
    Dedupe(extract_pdf_links(html, list_page_url) \o more_links(html, base_url, ar_number))

\* scheme + host + path of an address
Normalized(url) == LET u == UrlParse(url)
                   IN [scheme |-> u.scheme, host |-> LowerS(u.netloc), path |-> u.path]

(***************************************************************************)
(* Addresses of the program, with host and directory names shortened to    *)
(* one character each.                                                     *)
(***************************************************************************)
\* https://gq.mines.gouv.qc.ca/documents/EXAMINE/{num}/
QuebecListUrl(num) == Https \o <<":","/","/","q","/","E","/">> \o num \o <<"/">>
\* https://www.geologyontario.mndm.gov.on.ca/mndmfiles/afri/data/records/{num}.html
OntarioListUrl(num) == Https \o <<":","/","/","o","/","r","/">> \o num \o <<".","h","t","m","l">>
\* https://prd-0420-...azurefd.net/lrc-geology-documents/assessment
OntarioBlob == Https \o <<":","/","/","z","/","s">>
\* https://www.gov.mb.ca/data/em/application/assessment/{ar_number}.pdf
ManitobaUrl(num) == Https \o <<":","/","/","m","/","s","/">> \o num \o DotPdf

Provinces == {"Quebec", "Ontario", "New Brunswick", "Manitoba", "Yukon"}
GM1 == <<"G","M","1">>
Nums == {<<>>, GM1, <<"g","m","1">>, <<"A","R","1">>, <<"G">>}

\* the listing page and the alternate host download_gm passes for a province
ListPageUrl(prov, num) ==
    IF prov = "Quebec" THEN QuebecListUrl(num)
    ELSE IF prov = "Ontario" THEN OntarioListUrl(num)
    ELSE <<>>
BaseUrl(prov) == IF prov = "Ontario" THEN OntarioBlob ELSE <<>>

(***************************************************************************)
(* The anchors a listing page may hold: relative and absolute targets,     *)
(* with the pdf suffix in either case, another suffix or none, with or     *)
(* without a query string, one with a blank to strip and one that names    *)
(* no file.                                                                *)
(***************************************************************************)
HrefPrefixes == {<<>>, Https \o <<":","/","/","x","/">>}
HrefNames == {<<"a">>, <<"b">>}
HrefSuffixes == {DotPdf, <<".","P","D","F">>, <<".","h","t","m">>, <<>>}
HrefQueries == {<<>>, <<"?","v",".","p","d","f">>}
InputHrefs ==
    {p \o n \o x \o q : p \in HrefPrefixes, n \in HrefNames,
                        x \in HrefSuffixes, q \in HrefQueries}
    \cup {<<" ", "a">> \o DotPdf, Https \o <<":","/","/","x","/">>}

\* the anchors of the listing pages served to the job runs
JobHrefs == {<<"a">> \o DotPdf,
             Https \o <<":","/","/","x","/","?","b",".","P","D","F">>,
             <<"a",".","h","t","m">>}

(***************************************************************************)
(* _unlock_pdf_bytes (src/main.py 441-472).                                *)
(***************************************************************************)
Docs == {[doc |-> d, form |-> "original"] : d \in 1..MaxDoc}
\* pdf.save(out) without encryption=: the same document, re-serialized unprotected
Reserialized(data) == [doc |-> data.doc, form |-> "resaved"]

\* the passwords tried, in order: None, then ""
Passwords == <<"None", "">>
\* pikepdf.open: opened, PasswordError, or any other exception
OpenOutcomes == {"ok", "password", "error"}
\* pdf.save: written, or an exception that is not a PasswordError
SaveOutcomes == {"ok", "error"}

\* the except clause an exception of the with-block reaches (465-470). The tuple
\* of the first clause is (pikepdf.PasswordError, X) where X is
\* pikepdf._qpdf.PasswordError when the installed pikepdf has it and the
\* built-in Exception otherwise.
ExceptClause(exc, hasQpdfPasswordError) ==
    IF exc = "password" \/ ~hasQpdfPasswordError THEN "continue" ELSE "break"

RECURSIVE UnlockFrom(_, _, _, _, _)
UnlockFrom(i, data, hasQpdfPasswordError, opens, saves) ==
    IF i > Len(Passwords) THEN [ret |-> data, tried |-> <<>>]
    ELSE LET exc == IF opens[i] # "ok" THEN opens[i]
                    ELSE IF saves[i] # "ok" THEN saves[i] ELSE "none"
         IN IF exc = "none"
            THEN [ret |-> Reserialized(data), tried |-> <<Passwords[i]>>]
            ELSE IF ExceptClause(exc, hasQpdfPasswordError) = "continue"
            THEN LET r == UnlockFrom(i + 1, data, hasQpdfPasswordError, opens, saves)
                 IN [ret |-> r.ret, tried |-> <<Passwords[i]>> \o r.tried]
            ELSE [ret |-> data, tried |-> <<Passwords[i]>>]

unlock_pdf_bytes(data, hasQpdfPasswordError, opens, saves) ==
    UnlockFrom(1, data, hasQpdfPasswordError, opens, saves)

(***************************************************************************)
(* download_gm: the request, its dispatch and its responses                *)
(* (src/main.py 509-538).                                                  *)
(***************************************************************************)
JobIds == {1, 2}
Project == "P"

\* a plausible slip: the GM prefix of a Quebec report is not checked
Dispatch_noprefix(prov, num) ==
    IF num = <<>> THEN "missing"
    ELSE IF prov = "Quebec" THEN "generic"
    ELSE IF prov = "Ontario" THEN "generic"
    ELSE IF prov = "New Brunswick" THEN "generic"
    ELSE IF prov = "Manitoba" THEN "manitoba"
    ELSE "invalid"

\* which branch of download_gm a request takes
Dispatch(prov, num) ==
    IF num = <<>> THEN "missing"
    ELSE IF prov = "Quebec" /\ StartsWith(UpperS(num), <<"G","M">>) THEN "generic"
    ELSE IF prov = "Ontario" THEN "generic"
    ELSE IF prov = "New Brunswick" THEN "generic"
    ELSE IF prov = "Manitoba" THEN "manitoba"
    ELSE "invalid"

MissingResponse == [status |-> 400, body |-> "Missing parameters"]
InvalidResponse == [status |-> 400, body |-> "Invalid province or AR#"]
NoResponse == [status |-> 0, body |-> ""]

\* a plausible slip: the message is chosen with cnt >= 0
CountResponse_geq(cnt) ==
    [status |-> 200, body |-> IF cnt >= 0 THEN "Downloaded PDFs"
                              ELSE "Folders created. No PDFs downloaded."]

CountResponse(cnt) ==
    [status |-> 200, body |-> IF cnt > 0 THEN "Downloaded PDFs"
                              ELSE "Folders created. No PDFs downloaded."]

\* the except clauses of download_gm: requests.HTTPError, then Exception
ErrorResponse(exc) ==
    [status |-> IF exc = "HTTPError" THEN 502 ELSE 500, body |-> "error"]

(***************************************************************************)
(* Dropbox paths and the outcomes of the storage calls.                    *)
(***************************************************************************)
\* base, base/Instructions, base/Source Data for province/project/ar_number
FolderPaths(prov, num) ==
    << <<prov, Project, num>>,
       <<prov, Project, num, "Instructions">>,
       <<prov, Project, num, "Source Data">> >>

\* the destinations of the three files_copy_v2 calls
TemplatePaths(prov, num) ==
    << <<prov, Project, num, "Instructions", "Instructions.xlsx">>,
       <<prov, Project, num, "Geochemistry.gdb">>,
       <<prov, Project, num, "DDH.gdb">> >>

\* files_get_metadata: by the store's contents, or (storeFaults) an ApiError
\* other than not_found, or an exception that is not an ApiError
MetadataOutcomes(path) ==
    {IF path \in folders THEN "ok" ELSE "not_found"}
    \cup (IF storeFaults THEN {"api_other", "not_api_error"} ELSE {})

\* files_create_folder_v2
CreateOutcomes(path) ==
    {IF path \in folders THEN "conflict" ELSE "ok"}
    \cup (IF storeFaults THEN {"not_api_error"} ELSE {})

\* files_copy_v2 with autorename=False
CopyOutcomes(path) ==
    {IF path \in files THEN "conflict" ELSE "ok"}
    \cup (IF storeFaults THEN {"api_other", "not_api_error"} ELSE {})

\* a plausible slip: the folder is created without looking at the metadata
ensure_folder_always(outcome) ==
    IF outcome = "not_api_error" THEN "raise" ELSE "create"

\* ensure_folder after the metadata read (287-291): any ApiError leads to the
\* create call, any other exception leaves the function
ensure_folder(outcome) ==
    IF outcome = "ok" THEN "return"
    ELSE IF outcome \in {"not_found", "api_other"} THEN "create"
    ELSE "raise"

\* the try/except around a template copy (330-344): ApiError is logged
CopyHandler(outcome) == IF outcome = "not_api_error" THEN "raise" ELSE "continue"

(***************************************************************************)
(* _try_get and the two places that use it.                                *)
(***************************************************************************)
\* session.get + raise_for_status: a 2xx with a body, a 2xx with an empty body,
\* a non-success status, a connection failure or timeout after the retries,
\* a transient status after the retries
FetchOutcomes == {"ok", "empty", "HTTPError", "ConnectionError", "RetryError"}
UploadOutcomes == {"ok", "error"}
TokenOutcomes == {"ok", "RuntimeError", "HTTPError", "ConnectionError"}

\* _try_get (312-318): only requests.HTTPError is turned into None
try_get(fo) ==
    [raises |-> fo \in {"ConnectionError", "RetryError"},
     content |-> IF fo = "ok" THEN "bytes" ELSE IF fo = "empty" THEN "empty" ELSE "None"]

Truthy(content) == content = "bytes"

\* files_upload is reached only with a non-empty body
UploadsAfter(fo) == IF fo = "ok" THEN UploadOutcomes ELSE {"ok"}

\* os.path.basename(urlparse(url).path) or "file.pdf" (377)
GenericName == <<"f","i","l","e",".","p","d","f">>
upload_name(url) ==
    LET name == basename(UrlParse(url).path)
    IN IF name = <<>> THEN GenericName ELSE name

\* f"{srcdata}/{filename}" (378)
UploadPath(prov, num, url) == FolderPaths(prov, num)[3] \o <<upload_name(url)>>

\* a plausible slip: count += 1 comes before the upload
LoopBody_countfirst(count, fo, uo) ==
    LET r == try_get(fo)
    IN IF r.raises THEN [count |-> count, fetched |-> FALSE, uploads |-> 0, raised |-> "none"]
       ELSE IF ~Truthy(r.content)
       THEN [count |-> count, fetched |-> fo = "empty", uploads |-> 0, raised |-> "none"]
       ELSE [count |-> count + 1, fetched |-> TRUE, uploads |-> 1, raised |-> "none"]

\* a plausible slip: the loop body has no except clause
LoopBody_nocatch(count, fo, uo) ==
    LET r == try_get(fo)
    IN IF r.raises THEN [count |-> count, fetched |-> FALSE, uploads |-> 0, raised |-> fo]
       ELSE IF ~Truthy(r.content)
       THEN [count |-> count, fetched |-> fo = "empty", uploads |-> 0, raised |-> "none"]
       ELSE IF uo = "ok"
       THEN [count |-> count + 1, fetched |-> TRUE, uploads |-> 1, raised |-> "none"]
       ELSE [count |-> count, fetched |-> TRUE, uploads |-> 1, raised |-> "UploadError"]

\* one iteration of the loop of download_ar_generic (372-381)
LoopBody(count, fo, uo) ==
    LET r == try_get(fo)
    IN IF r.raises THEN [count |-> count, fetched |-> FALSE, uploads |-> 0, raised |-> "none"]
       ELSE IF ~Truthy(r.content)
       THEN [count |-> count, fetched |-> fo = "empty", uploads |-> 0, raised |-> "none"]
       ELSE IF uo = "ok"
       THEN [count |-> count + 1, fetched |-> TRUE, uploads |-> 1, raised |-> "none"]
       ELSE [count |-> count, fetched |-> TRUE, uploads |-> 1, raised |-> "none"]

\* the tail of download_ar_manitoba (418-425): no try around fetch and upload
ManitobaTail(fo, uo) ==
    LET r == try_get(fo)
    IN IF r.raises THEN [count |-> 0, fetched |-> FALSE, uploads |-> 0, raised |-> fo]
       ELSE IF ~Truthy(r.content)
       THEN [count |-> 0, fetched |-> fo = "empty", uploads |-> 0, raised |-> "none"]
       ELSE IF uo = "ok"
       THEN [count |-> 1, fetched |-> TRUE, uploads |-> 1, raised |-> "none"]
       ELSE [count |-> 0, fetched |-> TRUE, uploads |-> 1, raised |-> "UploadError"]

(***************************************************************************)
(* The state of one request, and the initial states.                       *)
(***************************************************************************)
NoError == [stage |-> "none", exc |-> "none"]
\* what happened to the candidate visited last: its address, the outcome of
\* its fetch, the paths uploads were issued to, whether the upload completed
NoCandidate == [url |-> <<>>, status |-> "none", paths |-> <<>>, stored |-> FALSE,
                before |-> 0]

NewJob(pc, prov, num) ==
    [pc |-> pc, prov |-> prov, num |-> num,
     fi |-> 0,               \* index of the folder or template being handled
     meta |-> "none",        \* outcome of the metadata read of folder fi
     links |-> <<>>,         \* all_links
     idx |-> 0,              \* candidates visited by the loop
     count |-> 0,
     resp |-> NoResponse,
     err |-> NoError,        \* where an exception left the function, and which
     tokens |-> 0,           \* token exchanges made
     createdOn |-> {},       \* the metadata outcomes a create call was issued after
     ncopy |-> 0,            \* template copies attempted
     listed |-> FALSE,       \* the listing page was requested
     atList |-> [folders |-> 0, copies |-> 0],  \* provisioning done by then
     html |-> <<>>,          \* the anchors of the listing page received
     fetches |-> 0,          \* document fetches made
     anyFetched |-> FALSE,   \* some document fetch ended with a success status
     uploads |-> 0,          \* uploads issued
     stored |-> 0,           \* uploads completed
     last |-> NoCandidate,   \* the candidate visited last; before: count then
     after |-> FALSE]        \* started after another run of the same job was over

Range(f) == {f[i] : i \in DOMAIN f}

\* provisioning (the three ensure_folder calls and the three copies) is over
Provisioned(r) == r.ncopy = 3 /\ r.err.stage # "copy"

\* what earlier runs for the same report may have left in the store
PriorStores(prov, num) ==
    {[folders |-> {}, files |-> {}],
     [folders |-> {FolderPaths(prov, num)[1]}, files |-> {}],
     [folders |-> Range(FolderPaths(prov, num)), files |-> Range(TemplatePaths(prov, num))]}

CaseIdle == ext = <<>> /\ variants = [done |-> FALSE, list |-> <<>>]
UnlockIdle ==
    /\ pdf = [data |-> [doc |-> 1, form |-> "original"], hasQpdfPasswordError |-> TRUE,
              opens |-> <<"ok", "ok">>, saves |-> <<"ok", "ok">>]
    /\ unlocked = [done |-> FALSE, ret |-> [doc |-> 1, form |-> "original"], tried |-> <<>>]
DiscoverIdle ==
    /\ page = [html |-> <<>>, prov |-> "Quebec", num |-> GM1]
    /\ found = [done |-> FALSE, pdf_links |-> <<>>, more_links |-> <<>>, all_links |-> <<>>]
JobsIdle ==
    /\ job = [j \in JobIds |-> NewJob("absent", "Yukon", <<>>)]
    /\ folders = {} /\ files = {} /\ storeFaults = FALSE

\* one request, any province and report number, a store that may fail
Init ==
    /\ \E prov \in Provinces, num \in Nums :
         /\ job = [j \in JobIds |->
                     NewJob(IF j = 1 THEN "received" ELSE "absent", prov, num)]
         /\ \E st \in PriorStores(prov, num) : folders = st.folders /\ files = st.files
    /\ storeFaults = TRUE
    /\ CaseIdle /\ UnlockIdle /\ DiscoverIdle

(***************************************************************************)
(* The steps of a request.                                                 *)
(***************************************************************************)
Set(j, r) == job' = [job EXCEPT ![j] = r]

\* an exception leaves download_ar_*: download_gm answers 502 or 500
Fail(j, r, stage, exc) ==
    Set(j, [r EXCEPT !.pc = "done", !.err = [stage |-> stage, exc |-> exc],
                     !.resp = ErrorResponse(exc)])

\* download_ar_* returns cnt
Finish(j, r, cnt) ==
    Set(j, [r EXCEPT !.pc = "done", !.count = cnt, !.resp = CountResponse(cnt)])

\* download_gm 511-530: parameters and province checked
Receive(j) ==
    /\ job[j].pc = "received"
    /\ LET d == Dispatch(job[j].prov, job[j].num)
           r == [job[j] EXCEPT !.after =
                    \E k \in JobIds \ {j} : job[k].pc = "done" /\ Provisioned(job[k])]
       IN IF d = "missing" THEN Set(j, [r EXCEPT !.pc = "done", !.resp = MissingResponse])
          ELSE IF d = "invalid" THEN Set(j, [r EXCEPT !.pc = "done", !.resp = InvalidResponse])
          ELSE Set(j, [r EXCEPT !.pc = "token"])
    /\ UNCHANGED <<folders, files, storeFaults, caseVars, unlockVars, discoverVars>>

\* get_dropbox_access_token (271-285)
TokenExchange(j) ==
    /\ job[j].pc = "token"
    /\ \E o \in TokenOutcomes :
         LET r == [job[j] EXCEPT !.tokens = @ + 1]
         IN IF o = "ok" THEN Set(j, [r EXCEPT !.pc = "metadata", !.fi = 1])
            ELSE Fail(j, r, "token", o)
    /\ UNCHANGED <<folders, files, storeFaults, caseVars, unlockVars, discoverVars>>

\* after ensure_folder returned for folder fi: the next folder, or the copies
NextFolder(r) ==
    IF r.fi < 3 THEN [r EXCEPT !.pc = "metadata", !.fi = @ + 1, !.meta = "none"]
    ELSE [r EXCEPT !.pc = "copy", !.fi = 1, !.meta = "none"]

\* ensure_folder: dbx.files_get_metadata(path) (288-290)
GetMetadata(j) ==
    /\ job[j].pc = "metadata"
    /\ \E o \in MetadataOutcomes(FolderPaths(job[j].prov, job[j].num)[job[j].fi]) :
         LET r == [job[j] EXCEPT !.meta = o]
             todo == ensure_folder(o)
         IN IF todo = "return" THEN Set(j, NextFolder(r))
            ELSE IF todo = "create" THEN Set(j, [r EXCEPT !.pc = "create"])
            ELSE Fail(j, r, "metadata", o)
    /\ UNCHANGED <<folders, files, storeFaults, caseVars, unlockVars, discoverVars>>

\* ensure_folder: dbx.files_create_folder_v2(path) (291)
CreateFolder(j) ==
    /\ job[j].pc = "create"
    /\ LET path == FolderPaths(job[j].prov, job[j].num)[job[j].fi]
           r == [job[j] EXCEPT !.createdOn = @ \cup {job[j].meta}]
       IN \E o \in CreateOutcomes(path) :
            IF o = "ok" THEN Set(j, NextFolder(r)) /\ folders' = folders \cup {path}
            ELSE Fail(j, r, "create", o) /\ UNCHANGED folders
    /\ UNCHANGED <<files, storeFaults, caseVars, unlockVars, discoverVars>>

\* after the third copy: the rest of download_ar_generic or download_ar_manitoba
AfterCopies(j, r) ==
    IF Dispatch(r.prov, r.num) = "manitoba" THEN Set(j, [r EXCEPT !.pc = "mb_fetch", !.fi = 0])
    ELSE IF ListPageUrl(r.prov, r.num) = <<>> THEN Finish(j, [r EXCEPT !.fi = 0], 0)
    ELSE Set(j, [r EXCEPT !.pc = "listing", !.fi = 0])

\* one dbx.files_copy_v2 in its try/except (330-344, 401-415)
CopyTemplate(j) ==
    /\ job[j].pc = "copy"
    /\ LET path == TemplatePaths(job[j].prov, job[j].num)[job[j].fi]
           r == [job[j] EXCEPT !.ncopy = @ + 1]
       IN \E o \in CopyOutcomes(path) :
            /\ files' = IF o = "ok" THEN files \cup {path} ELSE files
            /\ IF CopyHandler(o) = "raise" THEN Fail(j, r, "copy", o)
               ELSE IF r.fi < 3 THEN Set(j, [r EXCEPT !.fi = @ + 1])
               ELSE AfterCopies(j, r)
    /\ UNCHANGED <<folders, storeFaults, caseVars, unlockVars, discoverVars>>

\* the listing pages served: up to MaxJobLinks anchors
JobPages == SeqsUpTo(JobHrefs, MaxJobLinks)

\* session.get(list_page_url), raise_for_status, and the discovery (347-370)
FetchListing(j) ==
    /\ job[j].pc = "listing"
    /\ LET r == [job[j] EXCEPT !.listed = TRUE,
                   !.atList = [folders |-> Cardinality(Range(FolderPaths(job[j].prov, job[j].num))
                                                        \cap folders),
                               copies |-> job[j].ncopy]]
       IN \E o \in FetchOutcomes \ {"empty"}, html \in JobPages :
            IF o = "ok"
            THEN Set(j, [r EXCEPT !.pc = "loop", !.html = html, !.idx = 0, !.count = 0,
                           !.links = all_links(html, ListPageUrl(r.prov, r.num),
                                               BaseUrl(r.prov), r.num)])
            ELSE html = <<>> /\ Fail(j, r, "listing", o)
    /\ UNCHANGED <<folders, files, storeFaults, caseVars, unlockVars, discoverVars>>

\* one candidate: _try_get, the upload, the except clause (372-381); with
\* keep, what happened to the candidate is kept in last
Visit(j, keep) ==
    /\ job[j].pc = "loop"
    /\ job[j].idx < Len(job[j].links)
    /\ \E fo \in FetchOutcomes : \E uo \in UploadsAfter(fo) :
         LET b == LoopBody(job[j].count, fo, uo)
             url == job[j].links[job[j].idx + 1]
             done == b.uploads = 1 /\ uo = "ok"
             r == [job[j] EXCEPT !.fetches = @ + 1, !.uploads = @ + b.uploads,
                                 !.anyFetched = @ \/ b.fetched,
                                 !.stored = IF done THEN @ + 1 ELSE @,
                                 !.last = IF ~keep THEN @
                                          ELSE [url |-> url, status |-> fo,
                                                paths |-> IF b.uploads = 1
                                                          THEN <<UploadPath(job[j].prov, job[j].num, url)>>
                                                          ELSE <<>>,
                                                stored |-> done, before |-> job[j].count]]
         IN IF b.raised = "none"
            THEN Set(j, [r EXCEPT !.idx = @ + 1, !.count = b.count])
            ELSE Fail(j, r, "loop", b.raised)
    /\ UNCHANGED <<folders, files, storeFaults, caseVars, unlockVars, discoverVars>>

LoopStep(j) == Visit(j, FALSE)
LoopStepKept(j) == Visit(j, TRUE)

\* return count (382)
LoopReturn(j) ==
    /\ job[j].pc = "loop"
    /\ job[j].idx = Len(job[j].links)
    /\ Finish(j, job[j], job[j].count)
    /\ UNCHANGED <<folders, files, storeFaults, caseVars, unlockVars, discoverVars>>

\* download_ar_manitoba 418-425
ManitobaFetch(j) ==
    /\ job[j].pc = "mb_fetch"
    /\ \E fo \in FetchOutcomes : \E uo \in UploadsAfter(fo) :
         LET b == ManitobaTail(fo, uo)
             r == [job[j] EXCEPT !.fetches = @ + 1, !.uploads = @ + b.uploads,
                                 !.stored = IF b.uploads = 1 /\ uo = "ok" THEN 1 ELSE 0,
                                 !.anyFetched = b.fetched,
                                 !.links = <<ManitobaUrl(job[j].num)>>, !.idx = 1]
         IN IF b.raised = "none" THEN Finish(j, r, b.count)
            ELSE Fail(j, r, "manitoba", b.raised)
    /\ UNCHANGED <<folders, files, storeFaults, caseVars, unlockVars, discoverVars>>

Next ==
    \/ Receive(1)
    \/ TokenExchange(1)
    \/ GetMetadata(1)
    \/ CreateFolder(1)
    \/ CopyTemplate(1)
    \/ FetchListing(1)
    \/ LoopStep(1)
    \/ LoopReturn(1)
    \/ ManitobaFetch(1)

Spec == Init /\ [][Next]_vars

(***************************************************************************)
(* Two requests for the same report sharing the store, in any              *)
(* interleaving of their storage calls (one after the other included).     *)
(* The store answers by its contents only.                                 *)
(***************************************************************************)
InitProvision ==
    /\ \E prov \in {"New Brunswick", "Manitoba"} :
         job = [j \in JobIds |-> NewJob("received", prov, GM1)]
    /\ folders = {} /\ files = {} /\ storeFaults = FALSE
    /\ CaseIdle /\ UnlockIdle /\ DiscoverIdle

NextProvision ==
    \/ \E j \in JobIds : Receive(j)
    \/ \E j \in JobIds : TokenExchange(j)
    \/ \E j \in JobIds : GetMetadata(j)
    \/ \E j \in JobIds : CreateFolder(j)
    \/ \E j \in JobIds : CopyTemplate(j)
    \/ \E j \in JobIds : ManitobaFetch(j)

SpecProvision == InitProvision /\ [][NextProvision]_vars

(***************************************************************************)
(* One request for a province with a listing page, on an empty store that  *)
(* answers by its contents, every candidate's outcome being kept.          *)
(***************************************************************************)
InitRun ==
    /\ \E prov \in {"Quebec", "Ontario"} :
         job = [j \in JobIds |->
                  NewJob(IF j = 1 THEN "received" ELSE "absent", prov, GM1)]
    /\ folders = {} /\ files = {} /\ storeFaults = FALSE
    /\ CaseIdle /\ UnlockIdle /\ DiscoverIdle

NextRun ==
    \/ Receive(1)
    \/ TokenExchange(1)
    \/ GetMetadata(1)
    \/ CreateFolder(1)
    \/ CopyTemplate(1)
    \/ FetchListing(1)
    \/ LoopStepKept(1)
    \/ LoopReturn(1)

SpecRun == InitRun /\ [][NextRun]_vars

(***************************************************************************)
(* _case_variants applied to every suffix of the bounded alphabet.         *)
(***************************************************************************)
InitCase ==
    /\ ext \in Exts
    /\ variants = [done |-> FALSE, list |-> <<>>]
    /\ JobsIdle /\ UnlockIdle /\ DiscoverIdle

CallCaseVariants ==
    /\ ~variants.done
    /\ variants' = [done |-> TRUE, list |-> case_variants(ext)]
    /\ UNCHANGED <<ext, jobVars, unlockVars, discoverVars>>

SpecCase == InitCase /\ [][CallCaseVariants]_vars

(***************************************************************************)
(* _unlock_pdf_bytes applied to every document, under both pikepdf builds  *)
(* and every outcome of the opens and saves.                               *)
(***************************************************************************)
InitUnlock ==
    /\ \E data \in Docs, q \in BOOLEAN,
          opens \in [1..2 -> OpenOutcomes], saves \in [1..2 -> SaveOutcomes] :
         /\ pdf = [data |-> data, hasQpdfPasswordError |-> q,
                   opens |-> opens, saves |-> saves]
         /\ unlocked = [done |-> FALSE, ret |-> data, tried |-> <<>>]
    /\ JobsIdle /\ CaseIdle /\ DiscoverIdle

CallUnlock ==
    /\ ~unlocked.done
    /\ LET r == unlock_pdf_bytes(pdf.data, pdf.hasQpdfPasswordError, pdf.opens, pdf.saves)
       IN unlocked' = [done |-> TRUE, ret |-> r.ret, tried |-> r.tried]
    /\ UNCHANGED <<pdf, jobVars, caseVars, discoverVars>>

SpecUnlock == InitUnlock /\ [][CallUnlock]_vars

(***************************************************************************)
(* Link discovery applied to every listing page of up to MaxLinks anchors, *)
(* for the province without (Quebec) and with (Ontario) an alternate host. *)
(***************************************************************************)
Pages == SeqsUpTo(InputHrefs, MaxLinks)

InitDiscover ==
    /\ \E html \in Pages, prov \in {"Quebec", "Ontario"} :
         page = [html |-> html, prov |-> prov, num |-> GM1]
    /\ found = [done |-> FALSE, pdf_links |-> <<>>, more_links |-> <<>>, all_links |-> <<>>]
    /\ JobsIdle /\ CaseIdle /\ UnlockIdle

Discover ==
    /\ ~found.done
    /\ LET url == ListPageUrl(page.prov, page.num)
       IN found' = [done |-> TRUE,
                    pdf_links |-> extract_pdf_links(page.html, url),
                    more_links |-> more_links(page.html, BaseUrl(page.prov), page.num),
                    all_links |-> all_links(page.html, url, BaseUrl(page.prov), page.num)]
    /\ UNCHANGED <<page, jobVars, caseVars, unlockVars>>

SpecDiscover == InitDiscover /\ [][Discover]_vars

(***************************************************************************)
(* Properties.                                                             *)
(***************************************************************************)
RECURSIVE Pow2(_)
Pow2(n) == IF n = 0 THEN 1 ELSE 2 * Pow2(n - 1)

PairwiseDistinct(xs) == \A a, b \in 1..Len(xs) : a # b => xs[a] # xs[b]

\* the job went through download_ar_generic and received its listing page
ListingReceived(r) ==
    Dispatch(r.prov, r.num) = "generic" /\ r.listed /\ r.err.stage # "listing"

\* C1: once download_ar_generic has its listing page, no failure of a candidate's
\* fetch or upload leaves the loop: the function ends only by returning, after
\* visiting every candidate, with a count between 0 and the number of
\* candidates, which is 0 when no fetch ended with a success status.
C1_LoopIsolatesFailures ==
    \A j \in JobIds :
      ListingReceived(job[j]) =>
        /\ job[j].err = NoError
        /\ job[j].pc \in {"loop", "done"}
        /\ job[j].count \in 0..job[j].idx
        /\ job[j].pc = "done" =>
             /\ job[j].idx = Len(job[j].links)
             /\ job[j].fetches = Len(job[j].links)
             /\ job[j].resp = CountResponse(job[j].count)
             /\ ~job[j].anyFetched => job[j].count = 0

\* a run that visited several candidates, every fetch of which failed
C1_Witness ==
    \E j \in JobIds :
      /\ ListingReceived(job[j]) /\ job[j].pc = "done"
      /\ Len(job[j].links) > 1 /\ job[j].fetches = Len(job[j].links)
      /\ ~job[j].anyFetched /\ job[j].count = 0 /\ job[j].resp.status = 200

\* C2: a Manitoba job attempts the one address <fixedBase>/<reportId>.pdf and
\* ends with a count of 0 or 1 whatever the outcome of that fetch and upload:
\* no failure of the single candidate becomes a job error.
C2_ManitobaNeverFails ==
    \A j \in JobIds :
      (Dispatch(job[j].prov, job[j].num) = "manitoba" /\ job[j].fetches > 0) =>
        /\ job[j].links = <<ManitobaUrl(job[j].num)>>
        /\ job[j].fetches = 1
        /\ job[j].err = NoError
        /\ job[j].resp.status = 200
        /\ job[j].count \in {0, 1}

ProvisionStages == {"metadata", "create", "copy"}

\* C3: a run started after another run of the same job had provisioned and
\* ended, on a store that answers by its contents, raises no
\* error while provisioning, issues no create-folder call, and once it has
\* provisioned the store holds exactly the three folders of the job.
C3_SecondProvisionIdempotent ==
    \A j \in JobIds :
      job[j].after =>
        /\ job[j].err.stage \notin ProvisionStages
        /\ job[j].createdOn = {}
        /\ Provisioned(job[j]) => folders = Range(FolderPaths(job[j].prov, job[j].num))

\* the second run is over, its three copies having met existing destinations
C3_Witness ==
    \E j \in JobIds :
      /\ job[j].after /\ job[j].pc = "done" /\ job[j].resp.status = 200
      /\ job[j].ncopy = 3 /\ job[j].createdOn = {}
      /\ files = Range(TemplatePaths(job[j].prov, job[j].num))
      /\ folders = Range(FolderPaths(job[j].prov, job[j].num))

\* C4: no job's provisioning ends in an error because the folder it found
\* missing was created by the other job before its own create call.
C4_NoFailureOnAlreadyExists ==
    \A j \in JobIds :
      ~(/\ job[j].err = [stage |-> "create", exc |-> "conflict"]
        /\ job[j].meta = "not_found")

\* the reportId starts with GM, compared case-insensitively
HasGMPrefix(num) == Len(num) >= 2 /\ Lower(num[1]) = "g" /\ Lower(num[2]) = "m"
Supported == {"Quebec", "Ontario", "New Brunswick", "Manitoba"}
\* a request with its three fields present that the strategy table rejects
Rejected(r) ==
    /\ r.num # <<>> /\ r.pc # "absent"
    /\ r.prov \notin Supported \/ (r.prov = "Quebec" /\ ~HasGMPrefix(r.num))

\* C5: an unsupported jurisdiction and a Quebec reportId without the GM
\* prefix end in the same 400 response, and no token exchange, folder
\* creation, template copy, fetch or upload is ever made for such a job.
C5_RejectedAlikeWithoutEffects ==
    \A j \in JobIds :
      Rejected(job[j]) =>
        /\ job[j].pc \in {"received", "done"}
        /\ job[j].pc = "done" => job[j].resp = InvalidResponse /\ job[j].err = NoError
        /\ job[j].tokens = 0 /\ job[j].createdOn = {} /\ job[j].ncopy = 0
        /\ ~job[j].listed /\ job[j].fetches = 0 /\ job[j].uploads = 0

\* a Quebec request without the prefix has been answered
C5_Witness ==
    \E j \in JobIds :
      /\ job[j].prov = "Quebec" /\ job[j].num # <<>> /\ ~HasGMPrefix(job[j].num)
      /\ job[j].pc = "done" /\ job[j].resp = InvalidResponse

\* C6: when the listing page comes back with no anchor, the three folders
\* existed and the three copies had been attempted before it was requested,
\* the candidate list is empty, nothing is fetched or uploaded, and the job
\* ends without error, count 0, with the "folders created" message.
C6_EmptyListing ==
    \A j \in JobIds :
      (ListingReceived(job[j]) /\ job[j].html = <<>>) =>
        /\ job[j].atList = [folders |-> 3, copies |-> 3]
        /\ job[j].links = <<>>
        /\ job[j].fetches = 0 /\ job[j].uploads = 0
        /\ job[j].err = NoError
        /\ job[j].pc = "done" =>
             /\ job[j].count = 0
             /\ job[j].resp = [status |-> 200, body |-> "Folders created. No PDFs downloaded."]

\* such a job, with an alternate host, is over
C6_Witness ==
    \E j \in JobIds :
      /\ ListingReceived(job[j]) /\ job[j].html = <<>> /\ job[j].prov = "Ontario"
      /\ job[j].pc = "done" /\ job[j].resp.status = 200

\* C7: unlock returns the re-serialized document exactly when an attempt's
\* open and save both succeeded and the input unchanged otherwise, and the
\* empty password is tried only after the attempt without password failed
\* because a password is required.
C7_UnlockContract ==
    unlocked.done =>
      LET good == \E i \in 1..Len(unlocked.tried) :
                     pdf.opens[i] = "ok" /\ pdf.saves[i] = "ok"
      IN /\ unlocked.ret = IF good THEN Reserialized(pdf.data) ELSE pdf.data
         /\ Len(unlocked.tried) > 1 => pdf.opens[1] = "password"

\* C8 as stated: 2^k pairwise distinct strings for every suffix of length k
\* of the alphabet, each equal to the suffix up to case; none for the empty one.
C8_AllDistinct ==
    variants.done =>
      IF ext = <<>> THEN variants.list = <<>>
      ELSE /\ Len(variants.list) = Pow2(Len(ext))
           /\ PairwiseDistinct(variants.list)
           /\ \A i \in 1..Len(variants.list) : LowerS(variants.list[i]) = LowerS(ext)

Letters(e) == {i \in 1..Len(e) : IsLetter(e[i])}

\* C8 amended: the list has 2^k entries, each equal to the suffix up to case;
\* it holds 2^m different strings, m the number of letters of the suffix, so
\* its entries are pairwise distinct exactly when every character is a letter;
\* the empty suffix gives the empty list.
C8_DistinctPerLetter ==
    variants.done =>
      IF ext = <<>> THEN variants.list = <<>>
      ELSE /\ Len(variants.list) = Pow2(Len(ext))
           /\ \A i \in 1..Len(variants.list) : LowerS(variants.list[i]) = LowerS(ext)
           /\ Cardinality(Range(variants.list)) = Pow2(Cardinality(Letters(ext)))
           /\ PairwiseDistinct(variants.list) <=> Letters(ext) = 1..Len(ext)

\* a suffix of full length mixing letters and other characters was expanded
C8_Witness ==
    /\ variants.done /\ Len(ext) = MaxExtLen
    /\ Letters(ext) # {} /\ Letters(ext) # 1..Len(ext)
    /\ ~PairwiseDistinct(variants.list)

AbsoluteHttp(h) == UrlParse(h).scheme \in {Http, Https}

\* C9: the candidate list is the explicit links followed by the guessed ones
\* with no two entries of the same normalized address (scheme, host, path);
\* N distinct absolute pdf anchors and no alternate host give N entries, in
\* document order.
C9_DedupedByNormalizedAddress ==
    found.done =>
      /\ \A a, b \in 1..Len(found.all_links) :
           a # b => Normalized(found.all_links[a]) # Normalized(found.all_links[b])
      /\ \A k \in 1..Len(found.pdf_links) : found.all_links[k] = found.pdf_links[k]
      /\ (/\ page.prov = "Quebec"
          /\ PairwiseDistinct(page.html)
          /\ \A i \in 1..Len(page.html) :
               AbsoluteHttp(page.html[i]) /\ EndsWith(LowerS(page.html[i]), DotPdf))
         => found.all_links = page.html

\* C10: a create-folder call is issued only after a metadata read that failed
\* with not_found; after any other failure of the metadata read the job has
\* failed there and then.
C10_CreateOnlyOnNotFound ==
    \A j \in JobIds :
      /\ job[j].createdOn \subseteq {"not_found"}
      /\ job[j].meta \in {"api_other", "not_api_error"} =>
           job[j].pc = "done" /\ job[j].err.stage = "metadata"

\* the addresses guessed from the g-th stem, and that stem as they spell it
GuessGroup(g) == SubSeq(found.more_links, 8 * (g - 1) + 1, 8 * g)
GuessPrefix == BaseUrl(page.prov) \o <<"/">> \o page.num \o <<"/">>
StemAt(g) == LET first == GuessGroup(g)[1]
             IN SubSeq(first, Len(GuessPrefix) + 1, Len(first) - Len(DotPdf))
\* the file name of a hyperlink target is what follows its last slash; it has
\* the pdf suffix when it is a stem followed by a dot and pdf in any case
HasPdfSuffix(h) ==
    LET name == basename(h)
    IN /\ Len(name) > Len(DotPdf)
       /\ LowerS(SubSeq(name, Len(name) - 3, Len(name))) = DotPdf
       /\ \E k \in 1..(Len(name) - 4) : name[k] # "."
\* the anchors the stems are taken from: those with the pdf suffix, or all of
\* them (that have a stem) when none has it
StemAnchors ==
    LET hs == Hrefs(page.html)
        withPdf == {i \in 1..Len(hs) : HasPdfSuffix(hs[i])}
    IN IF withPdf # {} THEN withPdf
       ELSE {i \in 1..Len(hs) : splitext(basename(hs[i])).root # <<>>}
StemOfAnchor(i) == splitext(basename(Hrefs(page.html)[i])).root
FirstAnchor(stem) == CHOOSE i \in StemAnchors :
                       StemOfAnchor(i) = stem /\ \A k \in StemAnchors :
                                                   StemOfAnchor(k) = stem => i <= k

SuccessStatus(st) == st \in {"ok", "empty"}
\* the candidate visited last was counted
Counted(r) == r.count = r.last.before + 1
\* Source Data/<file name>: the file name is what follows the last slash of
\* the path of the address, the fixed generic name when that is empty
SourceDataFile(r) ==
    LET path == UrlParse(r.last.url).path
        name == SubSeq(path, LastIndex(path, {"/"}) + 1, Len(path))
    IN <<r.prov, Project, r.num, "Source Data",
         IF name = <<>> THEN <<"f","i","l","e",".","p","d","f">> ELSE name>>

====
